---- MODULE Spec2Model ----
(***************************************************************************)
(* Model of packages/cli/src/ui/commands/mcpCommand.ts: the /mcp status    *)
(* listing (getMcpStatus) and the /mcp auth action (authCommand.action).   *)
(* Both are async functions: every action below is one synchronous         *)
(* segment of a handler, from one await to the next.  The shared stores    *)
(* (server status table, discovery phase, tool registry, OAuth token       *)
(* store, mcpServerRequiresOAuth) are updated by the host in between.      *)
(***************************************************************************)
EXTENDS Integers, Sequences, FiniteSets, TLC

VARIABLES
    mcpServers,          \* config.getMcpServers(): properties in insertion order
    blockedMcpServers,   \* config.getBlockedMcpServers(): array
    serverStatus,        \* table behind getMCPServerStatus(name)
    discoveryState,      \* value behind getMCPDiscoveryState()
    registryTools,       \* tool registry content: tool origin -> number of tools
    tokenStore,          \* MCPOAuthTokenStorage: server name -> token state
    requiresOAuth,       \* mcpServerRequiresOAuth map
    envSteps,            \* number of background updates made so far
    frame,               \* the getMcpStatus invocation (locals, position, result)
    auth                 \* the authCommand.action invocations (locals + position)

vars == <<mcpServers, blockedMcpServers, serverStatus, discoveryState, registryTools,
          tokenStore, requiresOAuth, envSteps, frame, auth>>

configVars == <<mcpServers, blockedMcpServers>>
storeVars == <<serverStatus, discoveryState, registryTools, tokenStore, requiresOAuth>>

-----------------------------------------------------------------------------
(* Bounds *)

MaxBlocked == 1
MaxTools == 2
MaxEnvSteps == 2

-----------------------------------------------------------------------------
(* Universe of values *)

\* Names a configured server can have.  "7" is a canonical array index, which
\* Object.keys enumerates before the other keys.
ServerNames == {"srv", "7"}

BlockedNames == {"blk", "old"}

ArrayIndex == ("7" :> 7) @@ ("10" :> 10)

\* server.oauth: no oauth block, a block with enabled unset/false, enabled: true
OAuthBlocks == {"none", "disabled", "enabled"}

DISCONNECTED == "disconnected"
CONNECTING == "connecting"
CONNECTED == "connected"
MCPServerStatus == {DISCONNECTED, CONNECTING, CONNECTED}

NOT_STARTED == "not_started"
IN_PROGRESS == "in_progress"
COMPLETED == "completed"
MCPDiscoveryState == {NOT_STARTED, IN_PROGRESS, COMPLETED}

\* What getToken / isTokenExpired can tell about a server's stored token.
TokenStates == {"none", "valid", "expired"}

\* Origin of a registered tool: a DiscoveredMCPTool of a server, or any other tool.
BuiltinOrigin == "builtin"
ToolOrigins == ServerNames \cup {BuiltinOrigin}

Range(s) == {s[i] : i \in DOMAIN s}

IsInjective(s) == \A i, j \in DOMAIN s : s[i] = s[j] => i = j

SeqsUpTo(S, n) == UNION {[1..k -> S] : k \in 0..n}

-----------------------------------------------------------------------------
(* Configuration objects *)

\* server.url / server.httpUrl: not set, or the address given.
NoUrl == "undefined"
Urls == {NoUrl, "https://sse.example"}
HttpUrls == {NoUrl, "https://http.example"}

\* A server configuration object (the fields the two handlers read).
ServerConfigs == [name : ServerNames, oauth : OAuthBlocks, url : Urls, httpUrl : HttpUrls]

\* The mcpServers record: properties in the order they were inserted.
McpServerRecords ==
    {obj \in SeqsUpTo(ServerConfigs, Cardinality(ServerNames)) :
        IsInjective([i \in DOMAIN obj |-> obj[i].name])}

BlockedLists(n) ==
    {b \in SeqsUpTo(BlockedNames, n) : IsInjective(b)}

\* mcpServers[serverName]; "undefined" when the record has no such property.
Undefined == [name |-> "undefined", oauth |-> "none", url |-> NoUrl, httpUrl |-> NoUrl]

Lookup(obj, serverName) ==
    IF \E i \in DOMAIN obj : obj[i].name = serverName
    THEN obj[CHOOSE i \in DOMAIN obj : obj[i].name = serverName]
    ELSE Undefined

IsArrayIndex(name) == name \in DOMAIN ArrayIndex

RECURSIVE AscendingIndices(_)
AscendingIndices(S) ==
    IF S = {} THEN <<>>
    ELSE LET m == CHOOSE x \in S : \A y \in S : ArrayIndex[x] <= ArrayIndex[y]
         IN <<m>> \o AscendingIndices(S \ {m})

\* Object.keys(obj): integer-index keys in ascending numeric order, then the
\* other string keys in insertion order (ECMAScript OrdinaryOwnPropertyKeys).
ObjectKeys(obj) ==
    LET names == [i \in DOMAIN obj |-> obj[i].name]
    IN AscendingIndices({n \in Range(names) : IsArrayIndex(n)})
       \o SelectSeq(names, LAMBDA n : ~IsArrayIndex(n))

\* server?.oauth?.enabled
OAuthEnabled(server) == server.oauth = "enabled"

-----------------------------------------------------------------------------
(* getMcpStatus: pure parts *)

\* allTools.filter(tool => tool instanceof DiscoveredMCPTool && tool.serverName === serverName)
\* The registry is kept as the number of tools per origin; the result is the
\* number of tools that pass the filter.
RECURSIVE CountMatching(_, _, _)
CountMatching(allTools, origins, serverName) ==
    IF origins = {} THEN 0
    ELSE LET o == CHOOSE x \in origins : TRUE
         IN (IF o # BuiltinOrigin /\ o = serverName THEN allTools[o] ELSE 0)
            + CountMatching(allTools, origins \ {o}, serverName)

\* Mutant: the filter does not compare tool.serverName.
RECURSIVE CountDiscovered(_, _)
CountDiscovered(allTools, origins) ==
    IF origins = {} THEN 0
    ELSE LET o == CHOOSE x \in origins : TRUE
         IN (IF o # BuiltinOrigin THEN allTools[o] ELSE 0)
            + CountDiscovered(allTools, origins \ {o})

ServerToolsOfAnyServer(allTools, serverName) == CountDiscovered(allTools, DOMAIN allTools)

ServerTools(allTools, serverName) == CountMatching(allTools, DOMAIN allTools, serverName)

\* serverNames.filter(name => getMCPServerStatus(name) === MCPServerStatus.CONNECTING)
ConnectingServers(serverNames, statusTable) ==
    SelectSeq(serverNames, LAMBDA name : statusTable[name] = CONNECTING)

\* The startup banner: shown or not, and the number it prints.
StartupBanner(discovery, connectingServers) ==
    [shown |-> (discovery = IN_PROGRESS \/ Len(connectingServers) > 0),
     initializing |-> Len(connectingServers)]

\* switch (status): the text after the server name
StatusText(status) ==
    CASE status = CONNECTED -> "Ready"
      [] status = CONNECTING -> "Starting"
      [] OTHER -> "Disconnected"

\* let needsAuthHint = mcpServerRequiresOAuth.get(serverName) || false
InitialAuthHint(flags, serverName) == flags[serverName]

\* Mutant: a valid token does not reset needsAuthHint.
OAuthStatusHintKept(tokenOutcome) ==
    CASE tokenOutcome = "valid" -> [text |-> "OAuth authenticated", needsAuthHint |-> TRUE]
      [] tokenOutcome = "expired" -> [text |-> "OAuth token expired", needsAuthHint |-> TRUE]
      [] tokenOutcome = "none" -> [text |-> "OAuth not authenticated", needsAuthHint |-> TRUE]
      [] OTHER -> [text |-> "", needsAuthHint |-> TRUE]

\* The outcome of the try block for an OAuth-enabled server: the text appended
\* and the value needsAuthHint ends with.  tokenOutcome is what getToken and
\* isTokenExpired gave: "none", "valid", "expired", or "raised".
OAuthStatus(tokenOutcome) ==
    CASE tokenOutcome = "valid" -> [text |-> "OAuth authenticated", needsAuthHint |-> FALSE]
      [] tokenOutcome = "expired" -> [text |-> "OAuth token expired", needsAuthHint |-> TRUE]
      [] tokenOutcome = "none" -> [text |-> "OAuth not authenticated", needsAuthHint |-> TRUE]
      [] OTHER -> [text |-> "", needsAuthHint |-> TRUE]

\* The tool count appended to the header line.
ToolCountText(status, n) ==
    CASE status = CONNECTED -> [label |-> "tools", hasCount |-> TRUE, count |-> n]
      [] status = CONNECTING -> [label |-> "tools will appear when ready", hasCount |-> FALSE, count |-> 0]
      [] OTHER -> [label |-> "tools cached", hasCount |-> TRUE, count |-> n]

\* The '(type: "/mcp auth <server>" ...)' text after 'No tools available'.
\* Mutant: the hint does not look at the number of tools.
AuthHintShownWithTools(n, status, needsAuthHint) ==
    status = DISCONNECTED /\ needsAuthHint

AuthHintShown(n, status, needsAuthHint) ==
    n = 0 /\ status = DISCONNECTED /\ needsAuthHint

\* One server's part of the message.
ServerEntry(serverName, status, oauthText, needsAuthHint, n) ==
    [kind |-> "server",
     name |-> serverName,
     status |-> StatusText(status),
     oauth |-> oauthText,
     toolCount |-> ToolCountText(status, n),
     tools |-> n,
     needsAuthHint |-> needsAuthHint,
     authHint |-> AuthHintShown(n, status, needsAuthHint)]

\* for (const server of blockedMcpServers) message += ... - Blocked
BlockedEntry(name) ==
    [kind |-> "blocked", name |-> name, status |-> "Blocked", oauth |-> "",
     toolCount |-> [label |-> "", hasCount |-> FALSE, count |-> 0], tools |-> 0,
     needsAuthHint |-> FALSE, authHint |-> FALSE]

BlockedEntries(blocked) == [i \in DOMAIN blocked |-> BlockedEntry(blocked[i])]

\* The values getMcpStatus returns.
ErrorMessage(text) ==
    [type |-> "message", messageType |-> "error", content |-> [kind |-> text]]

EmptyConfiguration(opened) ==
    [type |-> "message", messageType |-> "info",
     content |-> [kind |-> "No MCP servers configured", opened |-> opened]]

ReportMessage(banner, entries) ==
    [type |-> "message", messageType |-> "info",
     content |-> [kind |-> "Configured MCP servers", banner |-> banner, entries |-> entries]]

\* The promise rejected: an exception left the handler.
Rejected == [type |-> "rejected", messageType |-> "none", content |-> [kind |-> "exception"]]

NoResult == [type |-> "none", messageType |-> "none", content |-> [kind |-> "none"]]

-----------------------------------------------------------------------------
(* getMcpStatus: the invocation *)

\* Locals of an invocation that has not started.  `reads` is a history of
\* the loop's reads of the stores, one record per iteration: what the stores
\* held for the server when getMCPServerStatus was read (tools, flagged), the
\* stored token when it was looked up (or, with no lookup, at that same
\* moment), and how the lookup ended.
IdleFrame ==
    [pc |-> "idle",
     serverNames |-> <<>>,
     i |-> 1,
     banner |-> [shown |-> FALSE, initializing |-> 0],
     allTools |-> [o \in ToolOrigins |-> 0],
     message |-> <<>>,
     status |-> DISCONNECTED,
     reads |-> <<>>,
     result |-> NoResult]

Return(f, value) == [f EXCEPT !.pc = "done", !.result = value]

\* Mutant: the loop over the blocked servers is missing.
FinishReportWithoutBlocked(f) ==
    [f EXCEPT !.pc = "done", !.result = ReportMessage(f.banner, f.message)]

\* After the loop: the blocked servers, then the return.
FinishReport(f) ==
    Return(f, ReportMessage(f.banner, f.message \o BlockedEntries(blockedMcpServers)))

\* The for loop over serverNames from position f.i, run until the next await
\* (the token lookup of an OAuth-enabled server) or the return.
RECURSIVE RunLoop(_)
RunLoop(f) ==
    IF f.i > Len(f.serverNames) THEN FinishReport(f)
    ELSE LET serverName == f.serverNames[f.i]
             status == serverStatus[serverName]
             server == Lookup(mcpServers, serverName)
             read == [name |-> serverName,
                      tools |-> registryTools[serverName],
                      flagged |-> requiresOAuth[serverName],
                      token |-> tokenStore[serverName],
                      lookup |-> IF OAuthEnabled(server) THEN "pending" ELSE "none"]
         IN IF OAuthEnabled(server)
            THEN [f EXCEPT !.pc = "import", !.status = status,
                           !.reads = Append(@, read)]
            ELSE RunLoop([f EXCEPT
                     !.message = Append(@, ServerEntry(serverName, status, "",
                                     InitialAuthHint(requiresOAuth, serverName),
                                     ServerTools(f.allTools, serverName))),
                     !.reads = Append(@, read),
                     !.i = @ + 1])

\* The rest of an OAuth-enabled server's iteration, once the token lookup
\* has settled, and the loop from the next server on.
AfterTokenLookup(f, raised) ==
    LET serverName == f.serverNames[f.i]
        oauth == OAuthStatus(IF raised THEN "raised" ELSE tokenStore[serverName])
    IN RunLoop([f EXCEPT
           !.message = Append(@, ServerEntry(serverName, f.status, oauth.text,
                                   oauth.needsAuthHint,
                                   ServerTools(f.allTools, serverName))),
           !.reads[f.i].token = tokenStore[serverName],
           !.reads[f.i].lookup = IF raised THEN "raised" ELSE "ok",
           !.i = @ + 1])

\* Mutant: the empty-configuration test joins its two conditions with ||.
AfterRegistryEitherEmpty(f, hasRegistry, sandbox, toolsRaise) ==
    LET serverNames == ObjectKeys(mcpServers)
    IN IF ~hasRegistry THEN Return(f, ErrorMessage("Could not retrieve tool registry."))
       ELSE IF Len(serverNames) = 0 \/ Len(blockedMcpServers) = 0
       THEN IF sandbox THEN Return(f, EmptyConfiguration(FALSE))
            ELSE [f EXCEPT !.pc = "open"]
       ELSE IF toolsRaise THEN Return(f, Rejected)
       ELSE RunLoop([f EXCEPT
                !.serverNames = serverNames,
                !.banner = StartupBanner(discoveryState,
                               ConnectingServers(serverNames, serverStatus)),
                !.allTools = registryTools])

\* From the tool registry check to the first await of the loop.
AfterRegistry(f, hasRegistry, sandbox, toolsRaise) ==
    LET serverNames == ObjectKeys(mcpServers)
    IN IF ~hasRegistry THEN Return(f, ErrorMessage("Could not retrieve tool registry."))
       ELSE IF Len(serverNames) = 0 /\ Len(blockedMcpServers) = 0
       THEN IF sandbox THEN Return(f, EmptyConfiguration(FALSE))
            ELSE [f EXCEPT !.pc = "open"]
       ELSE IF toolsRaise THEN Return(f, Rejected)
       ELSE RunLoop([f EXCEPT
                !.serverNames = serverNames,
                !.banner = StartupBanner(discoveryState,
                               ConnectingServers(serverNames, serverStatus)),
                !.allTools = registryTools])

\* getMcpStatus is called: the config check, then `await config.getToolRegistry()`.
StatusInvoke ==
    /\ frame.pc = "idle"
    /\ \E configLoaded \in BOOLEAN :
         frame' = IF configLoaded THEN [frame EXCEPT !.pc = "getToolRegistry"]
                  ELSE Return(frame, ErrorMessage("Config not loaded."))
    /\ UNCHANGED <<configVars, storeVars, envSteps, auth>>

\* getToolRegistry() settles.  sandbox: process.env.SANDBOX is set and is not
\* 'sandbox-exec'.  toolsRaise: toolRegistry.getAllTools() throws.
StatusRegistry ==
    /\ frame.pc = "getToolRegistry"
    /\ \E hasRegistry, sandbox, toolsRaise \in BOOLEAN :
         frame' = AfterRegistry(frame, hasRegistry, sandbox, toolsRaise)
    /\ UNCHANGED <<configVars, storeVars, envSteps, auth>>

\* `await open(docsUrl)` settles.
StatusOpen ==
    /\ frame.pc = "open"
    /\ \E opened \in BOOLEAN :
         frame' = IF opened THEN Return(frame, EmptyConfiguration(TRUE))
                  ELSE Return(frame, Rejected)
    /\ UNCHANGED <<configVars, storeVars, envSteps, auth>>

\* `await import('@google/gemini-cli-core')` settles; getToken is called.
StatusImport ==
    /\ frame.pc = "import"
    /\ frame' = [frame EXCEPT !.pc = "getToken"]
    /\ UNCHANGED <<configVars, storeVars, envSteps, auth>>

\* `await MCPOAuthTokenStorage.getToken(serverName)` settles, with the stored
\* token's state or with an exception.
StatusGetToken ==
    /\ frame.pc = "getToken"
    /\ \E raised \in BOOLEAN :
         frame' = AfterTokenLookup(frame, raised)
    /\ UNCHANGED <<configVars, storeVars, envSteps, auth>>

-----------------------------------------------------------------------------
(* authCommand.action *)

\* The invocations of the auth action that can be in flight together.
AuthIds == {"first", "second"}

\* What can be typed after "/mcp auth": a configured or unconfigured server
\* name, or nothing.
AuthArgs == ServerNames \cup {"ghost", ""}

IdleAuth ==
    [pc |-> "idle",
     serverName |-> "",   \* args.trim()
     config |-> FALSE,    \* context.services.config is there
     toolRegistry |-> "unknown",   \* what `await config.getToolRegistry()` gave
     geminiClient |-> "unknown",   \* what config.getGeminiClient() gave
     calls |-> <<>>,      \* the external calls made, each with its outcome
     items |-> <<>>,      \* context.ui.addItem texts
     result |-> NoResult]

Last(seq) == seq[Len(seq)]

Call(name, serverName) == [name |-> name, serverName |-> serverName, outcome |-> "pending"]

\* The call awaited settles with `outcome`.
Settle(a, outcome) == [a EXCEPT !.calls[Len(a.calls)].outcome = outcome]

InfoMessage(text) ==
    [type |-> "message", messageType |-> "info", content |-> [kind |-> text]]

\* The catch block: `Failed to authenticate with MCP server '...': ${getErrorMessage(error)}`
AuthFailure(cause) ==
    [type |-> "message", messageType |-> "error",
     content |-> [kind |-> "Failed to authenticate with MCP server", cause |-> cause]]

AuthSuccess == InfoMessage("Successfully authenticated and refreshed tools")

\* The servers listed when no name is given.
OAuthServers(obj) ==
    SelectSeq(ObjectKeys(obj), LAMBDA name : OAuthEnabled(Lookup(obj, name)))

\* Mutant: the `if (!server)` check is missing.
AuthStartNoLookup(a, args, configLoaded) ==
    LET named == [a EXCEPT !.serverName = args, !.config = configLoaded]
    IN IF ~configLoaded THEN Return(named, ErrorMessage("Config not loaded."))
       ELSE IF args = ""
       THEN IF Len(OAuthServers(mcpServers)) = 0
            THEN Return(named, InfoMessage("No MCP servers configured with OAuth authentication."))
            ELSE Return(named, InfoMessage("MCP servers with OAuth authentication"))
       ELSE [named EXCEPT !.pc = "import",
                          !.items = Append(@, "Starting OAuth authentication")]

\* From the call to the first await: the config check, the listing when no
\* name is given, the lookup of the server, the first progress item.
AuthStart(a, args, configLoaded) ==
    LET named == [a EXCEPT !.serverName = args, !.config = configLoaded]
    IN IF ~configLoaded THEN Return(named, ErrorMessage("Config not loaded."))
       ELSE IF args = ""
       THEN IF Len(OAuthServers(mcpServers)) = 0
            THEN Return(named, InfoMessage("No MCP servers configured with OAuth authentication."))
            ELSE Return(named, InfoMessage("MCP servers with OAuth authentication"))
       ELSE IF Lookup(mcpServers, args) = Undefined
       THEN Return(named, ErrorMessage("MCP server not found."))
       ELSE [named EXCEPT !.pc = "import",
                          !.items = Append(@, "Starting OAuth authentication")]

\* const oauthConfig = server.oauth || { authorizationUrl: '', tokenUrl: '' }
\* server.oauth when the server has the block (whatever its `enabled` says).
ConfiguredOAuth(server) ==
    [enabled |-> OAuthEnabled(server), authorizationUrl |-> "configured", tokenUrl |-> "configured"]

\* The block with two empty addresses, from which the endpoints are discovered.
OAuthPlaceholder == [authorizationUrl |-> "", tokenUrl |-> ""]

OAuthConfig(server) ==
    IF server.oauth # "none" THEN ConfiguredOAuth(server) ELSE OAuthPlaceholder

\* Mutant: server.url || server.httpUrl
McpServerUrlPreferUrl(server) ==
    IF server.url # NoUrl THEN server.url ELSE server.httpUrl

\* const mcpServerUrl = server.httpUrl || server.url
McpServerUrl(server) ==
    IF server.httpUrl # NoUrl THEN server.httpUrl ELSE server.url

\* MCPOAuthProvider.authenticate(serverName, oauthConfig, mcpServerUrl)
AuthenticateCall(a) ==
    LET server == Lookup(mcpServers, a.serverName)
    IN [name |-> "authenticate", serverName |-> a.serverName, outcome |-> "pending",
        oauthConfig |-> OAuthConfig(server), mcpServerUrl |-> McpServerUrl(server)]

\* The dynamic import settled: MCPOAuthProvider.authenticate is called.
CallAuthenticate(a) ==
    [a EXCEPT !.pc = "authenticate",
              !.calls = Append(@, AuthenticateCall(a))]

\* Mutant: a missing client is an error.
UpdateClientRequired(a, hasClient) ==
    IF hasClient
    THEN [a EXCEPT !.pc = "setTools", !.geminiClient = "present",
                   !.calls = Append(@, Call("setTools", a.serverName))]
    ELSE Return([a EXCEPT !.geminiClient = "absent"], AuthFailure("getGeminiClient"))

\* const geminiClient = config.getGeminiClient(); if (geminiClient) await geminiClient.setTools()
\* and the return that follows when there is no client.
UpdateClient(a, hasClient) ==
    IF hasClient
    THEN [a EXCEPT !.pc = "setTools", !.geminiClient = "present",
                   !.calls = Append(@, Call("setTools", a.serverName))]
    ELSE Return([a EXCEPT !.geminiClient = "absent"], AuthSuccess)

\* Mutant: the failure of authenticate is swallowed and the flow goes on.
AfterAuthenticateSwallowed(a, ok) ==
    [Settle(a, IF ok THEN "ok" ELSE "raised") EXCEPT
        !.pc = "getToolRegistry",
        !.items = Append(@, "Successfully authenticated")]

\* authenticate settled.
AfterAuthenticate(a, ok) ==
    IF ok
    THEN [Settle(a, "ok") EXCEPT !.pc = "getToolRegistry",
                                 !.items = Append(@, "Successfully authenticated")]
    ELSE Return(Settle(a, "raised"), AuthFailure("authenticate"))

\* Mutant: the tools of every server are discovered again.
DiscoverCallAllServers(a) == Call("discoverToolsForServer", "*")

\* toolRegistry.discoverToolsForServer(serverName)
DiscoverCall(a) == Call("discoverToolsForServer", a.serverName)

\* Mutant: the re-discovery and the client's refresh are started together.
AfterGetToolRegistryParallel(a, outcome, hasClient) ==
    CASE outcome = "raised" ->
            Return([a EXCEPT !.toolRegistry = "raised"], AuthFailure("getToolRegistry"))
      [] outcome = "registry" ->
            [a EXCEPT !.pc = "discover",
                      !.toolRegistry = "registry",
                      !.items = Append(@, "Re-discovering tools"),
                      !.calls = @ \o <<Call("setTools", a.serverName), DiscoverCall(a)>>]
      [] OTHER -> UpdateClient([a EXCEPT !.toolRegistry = "none"], hasClient)

\* Mutant: the re-discovery starts without its progress item.
AfterGetToolRegistrySilent(a, outcome, hasClient) ==
    CASE outcome = "raised" ->
            Return([a EXCEPT !.toolRegistry = "raised"], AuthFailure("getToolRegistry"))
      [] outcome = "registry" ->
            [a EXCEPT !.pc = "discover",
                      !.toolRegistry = "registry",
                      !.calls = Append(@, DiscoverCall(a))]
      [] OTHER -> UpdateClient([a EXCEPT !.toolRegistry = "none"], hasClient)

\* config.getToolRegistry() settled: with a registry, with none, or with an exception.
AfterGetToolRegistry(a, outcome, hasClient) ==
    CASE outcome = "raised" ->
            Return([a EXCEPT !.toolRegistry = "raised"], AuthFailure("getToolRegistry"))
      [] outcome = "registry" ->
            [a EXCEPT !.pc = "discover",
                      !.toolRegistry = "registry",
                      !.items = Append(@, "Re-discovering tools"),
                      !.calls = Append(@, DiscoverCall(a))]
      [] OTHER -> UpdateClient([a EXCEPT !.toolRegistry = "none"], hasClient)

\* Mutant: a failed re-discovery is swallowed and the flow goes on.
AfterDiscoverSwallowed(a, ok, hasClient) ==
    UpdateClient(Settle(a, IF ok THEN "ok" ELSE "raised"), hasClient)

\* toolRegistry.discoverToolsForServer(serverName) settled.
AfterDiscover(a, ok, hasClient) ==
    IF ok THEN UpdateClient(Settle(a, "ok"), hasClient)
    ELSE Return(Settle(a, "raised"), AuthFailure("discoverToolsForServer"))

\* geminiClient.setTools() settled.
AfterSetTools(a, ok) ==
    IF ok THEN Return(Settle(a, "ok"), AuthSuccess)
    ELSE Return(Settle(a, "raised"), AuthFailure("setTools"))

\* What a successful MCPOAuthProvider.authenticate leaves in the token store.
StoreToken(store, serverName) == [store EXCEPT ![serverName] = "valid"]

\* What a successful discoverToolsForServer leaves in the registry: the tools
\* of the one server replaced by the n tools discovered.
ReplaceTools(tools, serverName, n) == [tools EXCEPT ![serverName] = n]

AuthInvoke(id) ==
    /\ auth[id].pc = "idle"
    /\ \E args \in AuthArgs, configLoaded \in BOOLEAN :
         auth' = [auth EXCEPT ![id] = AuthStart(auth[id], args, configLoaded)]
    /\ UNCHANGED <<configVars, storeVars, envSteps, frame>>

\* Mutant: the server name is kept in one place shared by the invocations,
\* so the call names the server of whichever invocation started last.
AuthImportSharedName(id) ==
    /\ auth[id].pc = "import"
    /\ LET a == CallAuthenticate(auth[id])
           shared == {auth[o].serverName : o \in {o \in AuthIds : auth[o].pc # "idle"}}
       IN \E name \in shared :
            auth' = [auth EXCEPT ![id] = [a EXCEPT !.calls[Len(a.calls)].serverName = name]]
    /\ UNCHANGED <<configVars, storeVars, envSteps, frame>>

AuthImport(id) ==
    /\ auth[id].pc = "import"
    /\ auth' = [auth EXCEPT ![id] = CallAuthenticate(auth[id])]
    /\ UNCHANGED <<configVars, storeVars, envSteps, frame>>

\* A successful authentication leaves a fresh token in the token store.
AuthAuthenticate(id) ==
    /\ auth[id].pc = "authenticate"
    /\ \E ok \in BOOLEAN :
         /\ auth' = [auth EXCEPT ![id] = AfterAuthenticate(auth[id], ok)]
         /\ tokenStore' = IF ok THEN StoreToken(tokenStore, auth[id].serverName)
                          ELSE tokenStore
    /\ UNCHANGED <<configVars, serverStatus, discoveryState, registryTools, requiresOAuth,
                   envSteps, frame>>

AuthGetToolRegistry(id) ==
    /\ auth[id].pc = "getToolRegistry"
    /\ \E outcome \in {"registry", "none", "raised"}, hasClient \in BOOLEAN :
         auth' = [auth EXCEPT ![id] = AfterGetToolRegistry(auth[id], outcome, hasClient)]
    /\ UNCHANGED <<configVars, storeVars, envSteps, frame>>

\* A successful re-discovery replaces the tools of the server the call names.
AuthDiscover(id) ==
    /\ auth[id].pc = "discover"
    /\ \E ok \in BOOLEAN, hasClient \in BOOLEAN, n \in 0..MaxTools :
         /\ auth' = [auth EXCEPT ![id] = AfterDiscover(auth[id], ok, hasClient)]
         /\ registryTools' =
              IF ok THEN ReplaceTools(registryTools, Last(auth[id].calls).serverName, n)
              ELSE registryTools
    /\ UNCHANGED <<configVars, serverStatus, discoveryState, tokenStore, requiresOAuth,
                   envSteps, frame>>

AuthSetTools(id) ==
    /\ auth[id].pc = "setTools"
    /\ \E ok \in BOOLEAN :
         auth' = [auth EXCEPT ![id] = AfterSetTools(auth[id], ok)]
    /\ UNCHANGED <<configVars, storeVars, envSteps, frame>>

-----------------------------------------------------------------------------
(* The host: background updates of the stores *)

Configured == {mcpServers[i].name : i \in DOMAIN mcpServers}

\* Updates are followed while a handler is between its first await and its return.
InFlight ==
    \/ frame.pc \notin {"idle", "done"}
    \/ \E id \in AuthIds : auth[id].pc \notin {"idle", "done"}

\* updateMCPServerStatus
EnvServerStatus ==
    /\ InFlight
    /\ envSteps < MaxEnvSteps
    /\ \E name \in Configured, s \in MCPServerStatus :
         /\ s # serverStatus[name]
         /\ serverStatus' = [serverStatus EXCEPT ![name] = s]
    /\ envSteps' = envSteps + 1
    /\ UNCHANGED <<configVars, discoveryState, registryTools, tokenStore, requiresOAuth,
                   frame, auth>>

\* The discovery phase advances.
EnvDiscoveryState ==
    /\ InFlight
    /\ envSteps < MaxEnvSteps
    /\ \E d \in MCPDiscoveryState :
         /\ d # discoveryState
         /\ discoveryState' = d
    /\ envSteps' = envSteps + 1
    /\ UNCHANGED <<configVars, serverStatus, registryTools, tokenStore, requiresOAuth,
                   frame, auth>>

\* Background discovery replaces the tools of one server.
EnvDiscoverTools ==
    /\ InFlight
    /\ envSteps < MaxEnvSteps
    /\ \E name \in Configured, n \in 0..MaxTools :
         /\ n # registryTools[name]
         /\ registryTools' = [registryTools EXCEPT ![name] = n]
    /\ envSteps' = envSteps + 1
    /\ UNCHANGED <<configVars, serverStatus, discoveryState, tokenStore, requiresOAuth,
                   frame, auth>>

\* A token is stored, expires, or is removed.
EnvToken ==
    /\ InFlight
    /\ envSteps < MaxEnvSteps
    /\ \E name \in Configured, t \in TokenStates :
         /\ t # tokenStore[name]
         /\ tokenStore' = [tokenStore EXCEPT ![name] = t]
    /\ envSteps' = envSteps + 1
    /\ UNCHANGED <<configVars, serverStatus, discoveryState, registryTools, requiresOAuth,
                   frame, auth>>

\* A connection attempt got an auth challenge: mcpServerRequiresOAuth.set(name, true)
EnvRequiresOAuth ==
    /\ InFlight
    /\ envSteps < MaxEnvSteps
    /\ \E name \in Configured :
         /\ ~requiresOAuth[name]
         /\ requiresOAuth' = [requiresOAuth EXCEPT ![name] = TRUE]
    /\ envSteps' = envSteps + 1
    /\ UNCHANGED <<configVars, serverStatus, discoveryState, registryTools, tokenStore,
                   frame, auth>>

-----------------------------------------------------------------------------
(* Specification of the status listing *)

InitStores ==
    /\ serverStatus = [n \in ServerNames |-> DISCONNECTED]
    /\ discoveryState = NOT_STARTED
    /\ registryTools = [o \in ToolOrigins |-> IF o = BuiltinOrigin THEN 1 ELSE 0]
    /\ tokenStore = [n \in ServerNames |-> "none"]
    /\ requiresOAuth = [n \in ServerNames |-> FALSE]
    /\ envSteps = 0

\* getMcpStatus reads neither url nor httpUrl.
StatusInit ==
    /\ mcpServers \in {obj \in McpServerRecords :
                          \A i \in DOMAIN obj : obj[i].url # NoUrl /\ obj[i].httpUrl = NoUrl}
    /\ blockedMcpServers \in BlockedLists(MaxBlocked)
    /\ InitStores
    /\ frame = IdleFrame
    /\ auth = [id \in AuthIds |-> IdleAuth]

StatusNext ==
    \/ StatusInvoke
    \/ StatusRegistry
    \/ StatusOpen
    \/ StatusImport
    \/ StatusGetToken
    \/ EnvServerStatus
    \/ EnvDiscoveryState
    \/ EnvDiscoverTools
    \/ EnvToken
    \/ EnvRequiresOAuth

StatusSpec == StatusInit /\ [][StatusNext]_vars

-----------------------------------------------------------------------------
(* Specification of the auth action *)

AuthInit ==
    /\ mcpServers \in McpServerRecords
    /\ blockedMcpServers = <<>>
    /\ InitStores
    /\ frame = IdleFrame
    /\ auth = [id \in AuthIds |-> IdleAuth]

AuthNext ==
    \/ \E id \in AuthIds : AuthInvoke(id)
    \/ \E id \in AuthIds : AuthImport(id)
    \/ \E id \in AuthIds : AuthAuthenticate(id)
    \/ \E id \in AuthIds : AuthGetToolRegistry(id)
    \/ \E id \in AuthIds : AuthDiscover(id)
    \/ \E id \in AuthIds : AuthSetTools(id)

AuthSpec == AuthInit /\ [][AuthNext]_vars

-----------------------------------------------------------------------------
(* Claims about the auth action *)

Called(a, name) == \E k \in DOMAIN a.calls : a.calls[k].name = name

Outcome(a, name, outcome) ==
    \E k \in DOMAIN a.calls : a.calls[k].name = name /\ a.calls[k].outcome = outcome

KnownServer(a) == a.config /\ Lookup(mcpServers, a.serverName) # Undefined

UnknownServer(a) ==
    a.config /\ a.serverName # "" /\ Lookup(mcpServers, a.serverName) = Undefined

IsFailed(a) == a.pc = "done" /\ a.result.messageType = "error"

\* C1: in a run of the auth action in which authenticate failed, neither
\* discoverToolsForServer nor setTools is ever called, and the run has ended
\* with an error result.
C1_AuthFailureStopsTheFlow ==
    \A id \in AuthIds :
        Outcome(auth[id], "authenticate", "raised") =>
            /\ ~Called(auth[id], "discoverToolsForServer")
            /\ ~Called(auth[id], "setTools")
            /\ IsFailed(auth[id])
            /\ auth[id].result = AuthFailure("authenticate")

C1_Witness ==
    \E id \in AuthIds :
        /\ KnownServer(auth[id])
        /\ Outcome(auth[id], "authenticate", "raised")
        /\ auth[id].pc = "done"

\* C2 (as claimed): once authenticate has succeeded, a failure of
\* discoverToolsForServer or of setTools does not end the run in a Failed
\* result: the run ends with a success result.
C2_LaterFailureIsOnlyAWarning ==
    \A id \in AuthIds :
        ( /\ auth[id].pc = "done"
          /\ Outcome(auth[id], "authenticate", "ok")
          /\ \/ Outcome(auth[id], "discoverToolsForServer", "raised")
             \/ Outcome(auth[id], "setTools", "raised") )
        => auth[id].result.messageType = "info"

\* C3: an invocation with a non-empty name that is no configured server has
\* returned the not-found error, has made no external call and added no
\* progress item, and none of its steps changes the token store or the tool
\* registry.
C3_UnknownServerState ==
    \A id \in AuthIds :
        UnknownServer(auth[id]) =>
            /\ auth[id].pc = "done"
            /\ auth[id].result = ErrorMessage("MCP server not found.")
            /\ auth[id].calls = <<>>
            /\ auth[id].items = <<>>

C3_UnknownServerStep ==
    \A id \in AuthIds :
        (auth'[id] # auth[id] /\ UnknownServer(auth'[id])) =>
            /\ auth[id].pc = "idle"
            /\ UNCHANGED <<tokenStore, registryTools>>

-----------------------------------------------------------------------------
(* Claims about the status listing *)

N == Len(mcpServers)
M == Len(blockedMcpServers)

Returned == frame.pc = "done" /\ frame.result.type = "message"

Reported == Returned /\ frame.result.content.kind = "Configured MCP servers"

IsEmptyConfiguration == Returned /\ frame.result.content.kind = "No MCP servers configured"

ConfigNotLoaded == frame.result = ErrorMessage("Config not loaded.")

NoToolRegistry == frame.result = ErrorMessage("Could not retrieve tool registry.")

Entries == frame.result.content.entries

ServerIndices == {i \in DOMAIN Entries : Entries[i].kind = "server"}

Position(name) == CHOOSE i \in DOMAIN mcpServers : mcpServers[i].name = name

\* The order of own property keys: array indices ascending, then the other
\* names as inserted.
KeyBefore(a, b) ==
    IF IsArrayIndex(a)
    THEN ~IsArrayIndex(b) \/ ArrayIndex[a] < ArrayIndex[b]
    ELSE ~IsArrayIndex(b) /\ Position(a) < Position(b)

BlockedPart ==
    \A j \in 1..M : /\ Entries[N + j].kind = "blocked"
                    /\ Entries[N + j].name = blockedMcpServers[j]

NeedsAuth(e) == e.status = "Disconnected" /\ e.needsAuthHint

\* The lookup gave a present, non-expired token.
ValidToken(read) == read.token = "valid" /\ read.lookup # "raised"

\* C6 (as claimed): an entry needs authentication exactly when the server is
\* disconnected, has oauth.enabled or is flagged by the runtime, and has no
\* valid token.
C6_NeedsAuthIffNoValidToken ==
    Reported =>
        \A i \in ServerIndices :
            NeedsAuth(Entries[i]) <=>
                /\ Entries[i].status = "Disconnected"
                /\ \/ OAuthEnabled(Lookup(mcpServers, Entries[i].name))
                   \/ frame.reads[i].flagged
                /\ ~ValidToken(frame.reads[i])

\* C7: for a disconnected server with oauth.enabled, the entry needs
\* authentication when no token is stored and does not when the lookup gave a
\* present, non-expired token, whatever the runtime flag.
C7_OAuthEnabledFollowsToken ==
    Reported =>
        \A i \in ServerIndices :
            ( /\ OAuthEnabled(Lookup(mcpServers, Entries[i].name))
              /\ Entries[i].status = "Disconnected" )
            => /\ frame.reads[i].token = "none" => NeedsAuth(Entries[i])
               /\ ValidToken(frame.reads[i]) => ~NeedsAuth(Entries[i])

C7_Witness ==
    /\ Reported
    /\ \E i \in ServerIndices :
          /\ OAuthEnabled(Lookup(mcpServers, Entries[i].name))
          /\ Entries[i].status = "Disconnected"
          /\ frame.reads[i].flagged
          /\ ValidToken(frame.reads[i])
          /\ ~NeedsAuth(Entries[i])

\* C8 (as claimed): a Connected server's entry gives the number of tools of
\* that server in the registry snapshot, as live; every other entry gives
\* that number as the cached count.
C8_CountLiveOrCached ==
    Reported =>
        \A i \in ServerIndices :
            /\ Entries[i].toolCount.hasCount
            /\ Entries[i].toolCount.count = frame.allTools[Entries[i].name]
            /\ (Entries[i].toolCount.label = "tools") <=> (Entries[i].status = "Ready")

\* C8 (amended): a Connected server's entry gives the number of tools of that
\* server in the registry snapshot as "(n tools)", a Disconnected server's as
\* "(n tools cached)"; a Connecting server's entry gives no number ("tools
\* will appear when ready").  In every entry the tools listed are those of
\* that server in the snapshot.
C8_CountLiveCachedOrPending ==
    Reported =>
        \A i \in ServerIndices :
            LET e == Entries[i]
                n == frame.allTools[e.name]
            IN /\ e.tools = n
               /\ e.status = "Ready" =>
                     e.toolCount = [label |-> "tools", hasCount |-> TRUE, count |-> n]
               /\ e.status = "Disconnected" =>
                     e.toolCount = [label |-> "tools cached", hasCount |-> TRUE, count |-> n]
               /\ e.status = "Starting" =>
                     /\ ~e.toolCount.hasCount
                     /\ e.toolCount.label = "tools will appear when ready"

C8_Witness ==
    /\ Reported
    /\ \E i \in ServerIndices :
          /\ Entries[i].status = "Ready"
          /\ Entries[i].toolCount.count = MaxTools
          /\ Entries[i].toolCount.label = "tools"

\* C9 (as claimed): with a configuration and a tool registry at hand and at
\* least one server, the listing returns a report with an entry for every
\* configured and blocked server even when a token lookup or the tool
\* enumeration raised; an entry whose token lookup raised shows no OAuth state.
C9_FaultsAreIsolated ==
    (frame.pc = "done" /\ N + M > 0 /\ ~ConfigNotLoaded /\ ~NoToolRegistry) =>
        /\ Reported
        /\ Len(Entries) = N + M
        /\ \A i \in ServerIndices : frame.reads[i].lookup = "raised" => Entries[i].oauth = ""

\* C10 (as claimed): a report shows one instant of the stores: the number of
\* initializing servers in the banner is the number of entries shown as
\* starting, and a server shown as connected is shown with the tools the
\* registry held when its status was read.
C10_NoTearing ==
    Reported =>
        /\ frame.result.content.banner.initializing =
              Cardinality({i \in ServerIndices : Entries[i].status = "Starting"})
        /\ \A i \in ServerIndices :
              Entries[i].status = "Ready" => Entries[i].tools = frame.reads[i].tools

-----------------------------------------------------------------------------
(* Two invocations of the auth action at once *)

Other(id) == CHOOSE o \in AuthIds : o # id

InProgress(a) == a.pc \notin {"idle", "done"}

\* The steps of one invocation.
AuthStep(id) ==
    \/ AuthInvoke(id) \/ AuthImport(id) \/ AuthAuthenticate(id)
    \/ AuthGetToolRegistry(id) \/ AuthDiscover(id) \/ AuthSetTools(id)

\* What one step of an invocation running alone can turn its record into.
SoloSuccessors(a) ==
    CASE a.pc = "idle" ->
            {AuthStart(a, args, configLoaded) : args \in AuthArgs, configLoaded \in BOOLEAN}
      [] a.pc = "import" -> {CallAuthenticate(a)}
      [] a.pc = "authenticate" -> {AfterAuthenticate(a, ok) : ok \in BOOLEAN}
      [] a.pc = "getToolRegistry" ->
            {AfterGetToolRegistry(a, outcome, hasClient) :
                outcome \in {"registry", "none", "raised"}, hasClient \in BOOLEAN}
      [] a.pc = "discover" ->
            {AfterDiscover(a, ok, hasClient) : ok \in BOOLEAN, hasClient \in BOOLEAN}
      [] a.pc = "setTools" -> {AfterSetTools(a, ok) : ok \in BOOLEAN}
      [] OTHER -> {}

RECURSIVE SoloReach(_)
SoloReach(records) ==
    IF records = {} THEN {}
    ELSE records \cup SoloReach(UNION {SoloSuccessors(a) : a \in records})

\* Every record an invocation running alone with these arguments goes through.
SoloRuns(args, configLoaded) == SoloReach({AuthStart(IdleAuth, args, configLoaded)})

DifferentServers ==
    /\ \A id \in AuthIds : auth[id].pc # "idle"
    /\ auth["first"].serverName # auth["second"].serverName

C11_AsWhenRunAlone ==
    DifferentServers =>
        \A id \in AuthIds :
            /\ auth[id] \in SoloRuns(auth[id].serverName, auth[id].config)
            /\ \A k \in DOMAIN auth[id].calls :
                   auth[id].calls[k].serverName = auth[id].serverName
            /\ InProgress(auth[id]) => ENABLED AuthStep(id)

C11_OneStepTouchesOneInvocation ==
    \A id \in AuthIds :
        auth'[id] # auth[id] =>
            /\ auth'[Other(id)] = auth[Other(id)]
            /\ \A name \in DOMAIN tokenStore :
                   name # auth[id].serverName => tokenStore'[name] = tokenStore[name]
            /\ \A name \in DOMAIN registryTools :
                   name # auth[id].serverName => registryTools'[name] = registryTools[name]

-----------------------------------------------------------------------------
(* The order of the external calls of one invocation *)

\* The place of a call in the flow.
Rank(name) ==
    CASE name = "authenticate" -> 1
      [] name = "discoverToolsForServer" -> 2
      [] name = "setTools" -> 3

-----------------------------------------------------------------------------
(* The re-discovery step *)

C13_CallNamesTheServer ==
    \A id \in AuthIds : \A k \in DOMAIN auth[id].calls :
        auth[id].calls[k].name = "discoverToolsForServer" =>
            auth[id].calls[k].serverName = auth[id].serverName

C13_OtherToolsUnchanged ==
    \A id \in AuthIds :
        auth[id].pc = "discover" /\ auth'[id].pc # "discover" =>
            \A name \in DOMAIN registryTools :
                name # auth[id].serverName => registryTools'[name] = registryTools[name]

-----------------------------------------------------------------------------
(* Progress items *)

\* The stage of the flow an invocation is in: up to the return of
\* authenticate, up to the return of the re-discovery, in the client's
\* refresh, or returned.
Stage(a) ==
    CASE a.pc = "idle" -> "Idle"
      [] a.pc \in {"import", "authenticate"} -> "Authenticating"
      [] a.pc \in {"getToolRegistry", "discover"} -> "ReDiscovering"
      [] a.pc = "setTools" -> "RefreshingConsumer"
      [] a.pc = "done" /\ a.result.messageType = "error" -> "Failed"
      [] OTHER -> "Done"

ProgressItems(a) ==
    IF a.pc = "idle" \/ ~KnownServer(a) THEN <<>>
    ELSE <<"Starting OAuth authentication">>
         \o (IF Outcome(a, "authenticate", "ok")
             THEN <<"Successfully authenticated">> ELSE <<>>)
         \o (IF Called(a, "discoverToolsForServer")
             THEN <<"Re-discovering tools">> ELSE <<>>)

-----------------------------------------------------------------------------
(* The refresh of the client *)

CallsOf(a, name) == {k \in DOMAIN a.calls : a.calls[k].name = name}

-----------------------------------------------------------------------------
(* The result of an authentication *)

Authenticated(a) == a.pc = "done" /\ Outcome(a, "authenticate", "ok")

\* The tools were re-discovered and the client has taken them over.
FullyRefreshed(a) ==
    Outcome(a, "discoverToolsForServer", "ok") /\ Outcome(a, "setTools", "ok")

\* C16: of two finished authentications of the same server, one that
\* re-discovered the tools and refreshed the client and one that
\* authenticated but skipped or failed part of the refresh (no registry, no
\* client, or a failed later stage) never return the same result.
C16_ResultTellsWhetherToolsWereRefreshed ==
    \A id \in AuthIds :
        LET a == auth[id]
            b == auth[Other(id)]
        IN (/\ Authenticated(a) /\ Authenticated(b)
            /\ a.serverName = b.serverName
            /\ FullyRefreshed(a) /\ ~FullyRefreshed(b)) => a.result # b.result

-----------------------------------------------------------------------------
(* What authenticate is given *)

-----------------------------------------------------------------------------
(* The one try block of the auth action *)

\* The stages that raised: the external calls and the registry lookup.
RaisedStages(a) ==
    {a.calls[k].name : k \in {k \in DOMAIN a.calls : a.calls[k].outcome = "raised"}}
    \cup (IF a.toolRegistry = "raised" THEN {"getToolRegistry"} ELSE {})

-----------------------------------------------------------------------------
(* The "/mcp auth" hint of the status report *)

====
